---- MODULE Spec2Model ----
(***************************************************************************)
(* The command confirmation gate of WindowsDeviceController                *)
(* (src/src/control/device_controller.py): execute_command (submit),       *)
(* confirm_command (confirm) and get_pending_commands (listPending), run   *)
(* as asyncio tasks that interleave at their await points.                 *)
(*                                                                         *)
(* Time is counted in ticks of 1/TicksPerSecond second; clock is the value *)
(* time.time() returns.  Strings that the code inspects character by       *)
(* character (keyword, utterance) are sequences of one-character strings.  *)
(* Variables marked "history" record what happened (executor and notifier  *)
(* calls, submit calls); the code does not read them.                      *)
(***************************************************************************)
EXTENDS Integers, Sequences, FiniteSets, TLC

VARIABLES
    confirmation_keyword,   \* self.confirmation_keyword
    confirmation_callback,  \* self.confirmation_callback: "none" or "set"
    pending_commands,       \* self.pending_commands, a dict in insertion order
    clock,                  \* what time.time() returns, in ticks
    task,                   \* per asyncio task: position and locals of its call
    ret,                    \* what the last step returned (or raised) to the
                            \* caller of the call it ended, if it ended one
    log,                    \* history: the executor invocations, in order
    submits,                \* history: the execute_command calls, in order
    notifications,          \* history: the notifier calls, in order
    elapsed,                \* history: the time that has really passed since
                            \* the construction, in ticks
    conversation_history,   \* WindowsAIAssistant.conversation_history
    handler,                \* per _on_voice_command task: position and locals
    chats,                  \* history: the calls of the language model
    voice,                  \* history: the utterances given to the handler
    is_wake_word_detected,  \* SpeechRecognitionManager.is_wake_word_detected
    wake_word_callback,     \* self.wake_word_callback: "none" or "set"
    command_callback,       \* self.command_callback: "none" or "set"
    transcriptions          \* history: the _handle_transcription calls

(* The state of the assistant's command handler *)
assistantVars == <<conversation_history, handler, chats, voice>>

(* The state of the speech manager *)
speechVars == <<is_wake_word_detected, wake_word_callback, command_callback,
                transcriptions>>

vars == <<confirmation_keyword, confirmation_callback, pending_commands, clock,
          task, ret, log, submits, notifications, elapsed,
          assistantVars, speechVars>>

----------------------------------------------------------------------------
(* Bounds of the model *)

MaxSubmits == 2

MaxOvertime == 1

TicksPerSecond == 2

(* The most calls of _handle_transcription in a run *)
MaxHeard == 4

(* Program constant: self.command_timeout = 30.0 (seconds) *)
command_timeout == 30

TimeoutTicks == command_timeout * TicksPerSecond

(* Two tasks can be inside the gate at once.  The tasks are anonymous to   *)
(* the code, so a new call is always given to the first idle one.          *)
Tasks == {1, 2}

(* The clock advances by one tick or by the whole timeout.  The readings   *)
(* the model follows are those up to MaxOvertime ticks after the start and *)
(* after one timeout.                                                      *)
TickSteps == {1, TimeoutTicks}

(* The steps by which the system clock is set: one timeout forward or back *)
ClockAdjustments == {TimeoutTicks, 0 - TimeoutTicks}

ClockReadings == { k * TimeoutTicks + j : k \in 0..1, j \in 0..MaxOvertime }

----------------------------------------------------------------------------
(* Strings *)

(* "wolf-logic", the default of the constructor's confirmation_keyword *)
WolfLogic == <<"w","o","l","f","-","l","o","g","i","c">>

(* Another keyword a controller can be constructed with *)
Jarvis == <<"j","a","r","v","i","s">>

(* The texts confirm_command is called with: the default keyword itself,   *)
(* that keyword in other letter case among other words, a text without     *)
(* either keyword, the default keyword with a space for its hyphen, and    *)
(* the other keyword.                                                      *)
Utterances ==
    { WolfLogic,
      <<"O","K"," ","W","o","l","f","-","L","o","g","i","c">>,
      <<"g","o"," ","o","n">>,
      <<"w","o","l","f"," ","l","o","g","i","c">>,
      Jarvis }

UpperToLower ==
    [c \in {"A","G","H","I","K","L","O","P","W","C","F"} |->
        CASE c = "A" -> "a" [] c = "G" -> "g" [] c = "H" -> "h" [] c = "I" -> "i"
          [] c = "K" -> "k" [] c = "L" -> "l" [] c = "O" -> "o" [] c = "P" -> "p"
          [] c = "W" -> "w" [] c = "C" -> "c" [] c = "F" -> "f"]

(* str.lower() *)
lower(s) ==
    [i \in 1..Len(s) |-> IF s[i] \in DOMAIN UpperToLower THEN UpperToLower[s[i]] ELSE s[i]]

(* a in b, for strings *)
IsSubstring(a, b) ==
    \E i \in 0..(Len(b) - Len(a)) : SubSeq(b, i + 1, i + Len(a)) = a

(* Mutant of KeywordIn: the strings are compared as they are. *)
KeywordIn_CaseSensitive(keyword, text) == IsSubstring(keyword, text)

(* keyword.lower() in text.lower() *)
KeywordIn(keyword, text) == IsSubstring(lower(keyword), lower(text))

(* The keywords a controller is constructed with *)
Keywords == {WolfLogic, Jarvis, <<"W","o","l","f","-","L","o","g","i","c">>}

(* For each keyword, the utterances that contain it: KeywordIn, tabulated *)
Containing == [k \in Keywords |-> {u \in Utterances : KeywordIn(k, u)}]

----------------------------------------------------------------------------
(* Risk table *)

command_risks ==
    [c \in {"open_file", "create_file", "delete_file", "move_file", "copy_file",
            "launch_app", "close_app", "kill_process",
            "shutdown", "restart", "sleep", "lock_workstation",
            "minimize_window", "maximize_window", "close_window", "switch_window",
            "type_text", "press_key", "click_mouse",
            "change_volume", "change_brightness", "change_wallpaper",
            "network_disconnect", "network_connect",
            "registry_edit", "system_file_edit",
            "run_powershell", "run_cmd", "run_terminal"} |->
        CASE c \in {"open_file", "copy_file", "launch_app", "close_app",
                    "lock_workstation", "minimize_window", "maximize_window",
                    "close_window", "switch_window", "change_volume",
                    "change_brightness"} -> "SAFE"
          [] c \in {"create_file", "move_file", "sleep", "type_text", "press_key",
                    "click_mouse", "change_wallpaper", "network_connect"} -> "MODERATE"
          [] c \in {"delete_file", "kill_process", "network_disconnect",
                    "run_powershell", "run_cmd", "run_terminal"} -> "HIGH"
          [] OTHER -> "CRITICAL"]

(* Mutant of RiskOf: a command that is not in the table counts as SAFE. *)
RiskOf_UnknownSafe(command) ==
    IF command \in DOMAIN command_risks THEN command_risks[command] ELSE "SAFE"

(* Mutant of RiskOf: the row of sleep is read as SAFE. *)
RiskOf_SleepSafe(command) ==
    IF command = "sleep" THEN "SAFE"
    ELSE IF command \in DOMAIN command_risks THEN command_risks[command] ELSE "HIGH"

(* self.command_risks.get(command, CommandRiskLevel.HIGH) *)
RiskOf(command) ==
    IF command \in DOMAIN command_risks THEN command_risks[command] ELSE "HIGH"

(* The commands and keyword arguments the callers submit in this model:    *)
(* one per tier, and one that is not in the risk table.                    *)
Commands == {"open_file", "create_file", "delete_file", "shutdown", "format_disk"}

(* The keyword arguments of the uid-th call of execute_command: opaque to  *)
(* the gate, and each call's own.                                          *)
Kwargs(uid) == <<"kwargs", uid>>

----------------------------------------------------------------------------
(* The executor, _execute_internal *)

(* What _execute_internal can return for a command: the commands with an   *)
(* implementation succeed or fail; a command whose branch calls a method   *)
(* the class does not define ends in the except clause; every other one    *)
(* gets "not implemented yet".                                             *)
ExecutorResults(command) ==
    IF command \in {"launch_app", "open_file", "run_powershell", "type_text",
                    "press_key", "shutdown", "lock_workstation"}
    THEN { [success |-> TRUE,  message |-> "done"],
           [success |-> FALSE, message |-> "failed"] }
    ELSE IF command \in {"kill_process", "click_mouse", "restart", "change_volume"}
    THEN { [success |-> FALSE, message |-> "execution error"] }
    ELSE { [success |-> FALSE, message |-> "not implemented"] }

----------------------------------------------------------------------------
(* The pending table: a sequence of entries, each with its key (id) *)

(* int(time.time()) *)
IntSeconds(t) == t \div TicksPerSecond

(* f"{command}_{int(time.time())}" *)
CommandId(command, t) == <<command, IntSeconds(t)>>

Ids(table) == { table[i].id : i \in 1..Len(table) }

(* self.pending_commands[command_id] = pending_cmd: a new key is appended, *)
(* an existing key keeps its place and gets the new value.                 *)
DictSet(table, entry) ==
    IF entry.id \in Ids(table)
    THEN [i \in 1..Len(table) |-> IF table[i].id = entry.id THEN entry ELSE table[i]]
    ELSE Append(table, entry)

(* del self.pending_commands[command_id], for a key that is present *)
DictDel(table, id) == SelectSeq(table, LAMBDA e : e.id # id)

(* Mutant of NotExpired: a CRITICAL command times out one tick earlier. *)
NotExpired_ByTier(now, entry) ==
    now - entry.timestamp <=
        (IF entry.risk_level = "CRITICAL" THEN TimeoutTicks - 1 ELSE TimeoutTicks)

(* Mutant of NotExpired: the age is not compared with the timeout. *)
NotExpired_NoTimeout(now, entry) == now - entry.timestamp >= 0

(* current_time - pending_cmd.timestamp <= self.command_timeout *)
NotExpired(now, entry) == now - entry.timestamp <= TimeoutTicks

(* Mutant of CleanUp: nothing is removed. *)
CleanUp_Nothing(table, now) == table

(* The dict comprehension that keeps the entries that have not timed out *)
CleanUp(table, now) == SelectSeq(table, LAMBDA e : NotExpired(now, e))

----------------------------------------------------------------------------

IdleTask == [pc |-> "idle"]

NoReturn == [op |-> "none", kind |-> "none"]

(* The tasks that run _on_voice_command *)
Handlers == {1, 2}

IdleHandler == [pc |-> "idle"]

(* WindowsAIAssistant.__init__, before any utterance is handled *)
AssistantInit ==
    /\ conversation_history = <<>>
    /\ handler = [h \in Handlers |-> IdleHandler]
    /\ chats = <<>>
    /\ voice = <<>>

(* SpeechRecognitionManager.__init__ *)
SpeechInit ==
    /\ is_wake_word_detected = FALSE
    /\ wake_word_callback = "none"
    /\ command_callback = "none"
    /\ transcriptions = <<>>

Init ==
    /\ confirmation_keyword = WolfLogic
    /\ confirmation_callback = "none"
    /\ pending_commands = <<>>
    /\ clock = 0
    /\ task = [t \in Tasks |-> IdleTask]
    /\ ret = NoReturn
    /\ log = <<>>
    /\ submits = <<>>
    /\ notifications = <<>>
    /\ elapsed = 0
    /\ AssistantInit
    /\ SpeechInit

----------------------------------------------------------------------------
(* Clock and configuration *)

(* Time passes: the next time.time() returns d ticks more. *)
Tick(d) ==
    /\ clock + d \in ClockReadings
    /\ elapsed + d \in ClockReadings
    /\ clock' = clock + d
    /\ elapsed' = elapsed + d
    /\ ret' = NoReturn
    /\ UNCHANGED <<confirmation_keyword, confirmation_callback, pending_commands,
                   task, log, submits, notifications>>

(* The system clock is set forward or back by d ticks: time.time() returns *)
(* d more from now on, and no time has passed.                             *)
AdjustClock(d) ==
    /\ clock + d \in ClockReadings
    /\ clock' = clock + d
    /\ ret' = NoReturn
    /\ UNCHANGED <<confirmation_keyword, elapsed, confirmation_callback,
                   pending_commands, task, log, submits, notifications>>

(* set_confirmation_callback(callback) *)
set_confirmation_callback ==
    /\ confirmation_callback = "none"
    /\ confirmation_callback' = "set"
    /\ ret' = NoReturn
    /\ UNCHANGED <<confirmation_keyword, elapsed, pending_commands, clock, task,
                   log, submits, notifications>>

(* Mutant of Accepted: the text is not tested. *)
Accepted_Always(text) == TRUE

(* confirm_command's test of its text:                                     *)
(* not (self.confirmation_keyword.lower() not in confirmation_text.lower()) *)
Accepted(text) == text \in Containing[confirmation_keyword]

(* The task a new call runs in *)
Free(t) ==
    /\ task[t].pc = "idle"
    /\ \A s \in Tasks : s < t => task[s].pc # "idle"

----------------------------------------------------------------------------
(* execute_command *)

(* The dict execute_command returns for a command that needs confirmation. *)
(* Its message names the keyword 'wolf-logic' literally.                   *)
PendingOutcome(command, command_id) ==
    [op |-> "submit", kind |-> "pending", success |-> FALSE, pending |-> TRUE,
     command |-> command,
     command_id |-> command_id, says |-> WolfLogic]

(* Mutant of ExecutedOutcome: the executor's dict is dropped and the error *)
(* dict of the except clause returned.                                     *)
ExecutedOutcome_Error(command, result) ==
    [op |-> "submit", kind |-> "executed", success |-> FALSE, pending |-> FALSE,
     command |-> command, message |-> "error"]

(* The executor's dict, as execute_command passes it through for a SAFE command *)
ExecutedOutcome(command, result) ==
    [op |-> "submit", kind |-> "executed", success |-> result.success,
     pending |-> FALSE, command |-> command, message |-> result.message]

(* One invocation of _execute_internal, as the history records it: by      *)
(* which operation, for which submit (uid), with the entry's timestamp,    *)
(* the caller's reading of the clock and whether the caller's text held    *)
(* the keyword.                                                            *)
Invocation(via, uid, command, parameters, timestamp, now, kw) ==
    [via |-> via, uid |-> uid, command |-> command, parameters |-> parameters,
     timestamp |-> timestamp, now |-> now, kw |-> kw]

(* One execute_command call, as the history records it *)
Submitted(uid, command, kwargs, command_id) ==
    [uid |-> uid, command |-> command, parameters |-> kwargs, at |-> clock,
     command_id |-> command_id, mono |-> elapsed]

(* execute_command, SAFE branch, up to the await of _execute_internal *)
SubmitSafe(t, command) ==
    /\ Free(t)
    /\ Len(submits) < MaxSubmits
    /\ RiskOf(command) = "SAFE"
    /\ LET uid == Len(submits) + 1
           kwargs == Kwargs(uid)
       IN
        /\ submits' = Append(submits, Submitted(uid, command, kwargs, <<>>))
        /\ log' = Append(log, Invocation("submit", uid, command, kwargs, clock, clock, FALSE))
        /\ task' = [task EXCEPT ![t] = [pc |-> "submit_exec", command |-> command,
                                        uid |-> uid]]
    /\ ret' = NoReturn
    /\ UNCHANGED <<confirmation_keyword, elapsed, confirmation_callback, pending_commands,
                   clock, notifications>>

(* execute_command, SAFE branch: _execute_internal returns, its dict is returned *)
SubmitSafeReturn(t, result) ==
    /\ task[t].pc = "submit_exec"
    /\ result \in ExecutorResults(task[t].command)
    /\ ret' = ExecutedOutcome(task[t].command, result)
    /\ task' = [task EXCEPT ![t] = IdleTask]
    /\ UNCHANGED <<confirmation_keyword, elapsed, confirmation_callback, pending_commands,
                   clock, log, submits, notifications>>

(* The PendingCommand execute_command stores *)
NewPending(command, kwargs, uid) ==
    [id |-> CommandId(command, clock), command |-> command,
     risk_level |-> RiskOf(command), timestamp |-> clock, parameters |-> kwargs,
     uid |-> uid]

(* The notifier call _request_confirmation makes for a pending command *)
Notified(entry) ==
    [uid |-> entry.uid, risk_level |-> entry.risk_level, says |-> confirmation_keyword]

(* A returned dict, marked for the record with how the notifier call of    *)
(* the submit ended: "ok", or "failed" when it raised (caught and logged   *)
(* by _request_confirmation).                                              *)
Prompted(outcome, delivery) ==
    [f \in DOMAIN outcome \cup {"delivery"} |->
        IF f = "delivery" THEN delivery ELSE outcome[f]]

(* execute_command, branch risk_level != SAFE: store the pending command   *)
(* and call _request_confirmation.  Without a callback the call returns at *)
(* once.  With one, the notifier is called; a plain function (or a         *)
(* coroutine that never suspends) has returned or raised (caught and       *)
(* logged) when the call goes on, a coroutine that suspends is awaited.    *)
SubmitPending(t, command) ==
    /\ Free(t)
    /\ Len(submits) < MaxSubmits
    /\ RiskOf(command) # "SAFE"
    /\ LET uid == Len(submits) + 1
           kwargs == Kwargs(uid)
           entry == NewPending(command, kwargs, uid)
       IN
        /\ submits' = Append(submits, Submitted(uid, command, kwargs, entry.id))
        /\ pending_commands' = DictSet(pending_commands, entry)
        /\ IF confirmation_callback = "none"
           THEN /\ notifications' = notifications
                /\ task' = task
                /\ ret' = PendingOutcome(command, entry.id)
           ELSE /\ notifications' = Append(notifications, Notified(entry))
                /\ \E suspends \in BOOLEAN :
                     IF suspends
                     THEN /\ task' = [task EXCEPT ![t] =
                                        [pc |-> "submit_notify", command |-> command,
                                         uid |-> uid, command_id |-> entry.id]]
                          /\ ret' = NoReturn
                     ELSE /\ task' = task
                          /\ \E delivery \in {"ok", "failed"} :
                                ret' = Prompted(PendingOutcome(command, entry.id),
                                                delivery)
    /\ UNCHANGED <<confirmation_keyword, elapsed, confirmation_callback, clock, log>>

(* Mutant of SubmitPendingReturn: an exception of the notifier is not      *)
(* caught in _request_confirmation; the except clause of execute_command   *)
(* returns its error dict.                                                 *)
SubmitPendingReturn_Propagates(t, outcome) ==
    /\ task[t].pc = "submit_notify"
    /\ outcome \in {"ok", "failed"}
    /\ ret' = IF outcome = "ok"
              THEN Prompted(PendingOutcome(task[t].command, task[t].command_id), outcome)
              ELSE [op |-> "submit", kind |-> "error", success |-> FALSE,
                    pending |-> FALSE, command |-> task[t].command,
                    delivery |-> outcome]
    /\ task' = [task EXCEPT ![t] = IdleTask]
    /\ UNCHANGED <<confirmation_keyword, elapsed, confirmation_callback, pending_commands,
                   clock, log, submits, notifications>>

(* _request_confirmation's awaited callback returns, or raises (which is   *)
(* caught and logged); execute_command returns the pending outcome.        *)
SubmitPendingReturn(t, outcome) ==
    /\ task[t].pc = "submit_notify"
    /\ outcome \in {"ok", "failed"}
    /\ ret' = Prompted(PendingOutcome(task[t].command, task[t].command_id), outcome)
    /\ task' = [task EXCEPT ![t] = IdleTask]
    /\ UNCHANGED <<confirmation_keyword, elapsed, confirmation_callback, pending_commands,
                   clock, log, submits, notifications>>

----------------------------------------------------------------------------
(* confirm_command *)

(* The dict confirm_command returns when the keyword is not in the text *)
RejectedOutcome ==
    [op |-> "confirm", success |-> FALSE, kind |-> "invalid"]

(* Mutant of ConfirmOutcome: success whatever was executed. *)
ConfirmOutcome_AlwaysSuccess(executed_commands, now, nsub) ==
    [op |-> "confirm", success |-> TRUE, kind |-> "executed",
     executed |-> executed_commands, now |-> now, nsub |-> nsub]

(* Mutant of ConfirmOutcome: success only when every command succeeded. *)
ConfirmOutcome_AllSucceeded(executed_commands, now, nsub) ==
    IF executed_commands # <<>>
       /\ \A i \in 1..Len(executed_commands) : executed_commands[i].result.success
    THEN [op |-> "confirm", success |-> TRUE, kind |-> "executed",
          executed |-> executed_commands, now |-> now, nsub |-> nsub]
    ELSE [op |-> "confirm", success |-> FALSE, kind |-> "nothing",
          executed |-> executed_commands, now |-> now, nsub |-> nsub]

(* Mutant of ConfirmOutcome: the list holds the last result only. *)
ConfirmOutcome_LastOnly(executed_commands, now, nsub) ==
    IF executed_commands # <<>>
    THEN [op |-> "confirm", success |-> TRUE, kind |-> "executed",
          executed |-> <<executed_commands[Len(executed_commands)]>>,
          now |-> now, nsub |-> nsub]
    ELSE [op |-> "confirm", success |-> FALSE, kind |-> "nothing",
          executed |-> <<>>, now |-> now, nsub |-> nsub]

(* The dict confirm_command returns after its loop and clean-up.  For the  *)
(* record it is marked with the call's reading of the clock and with the   *)
(* number of execute_command calls made before the call began.             *)
ConfirmOutcome(executed_commands, now, nsub) ==
    IF executed_commands # <<>>
    THEN [op |-> "confirm", success |-> TRUE, kind |-> "executed",
          executed |-> executed_commands, now |-> now, nsub |-> nsub]
    ELSE [op |-> "confirm", success |-> FALSE, kind |-> "nothing",
          executed |-> <<>>, now |-> now, nsub |-> nsub]

(* What a call that ended in an exception leaves to its caller *)
RaisedOutcome(op, error) == [op |-> op, kind |-> "raised", error |-> error]

(* Mutant of ConfirmLoop: only the most recent entry that has not timed    *)
(* out is executed.                                                        *)
ConfirmLoop_MostRecentOnly(t, now, snap, i, executed_commands, table, kw, nsub) ==
    LET live == { j \in i..Len(snap) : NotExpired(now, snap[j]) } IN
    IF live # {}
    THEN LET j == CHOOSE k \in live : \A m \in live : k >= m
             e == snap[j]
         IN
          /\ log' = Append(log, Invocation("confirm", e.uid, e.command,
                                           e.parameters, e.timestamp, now, kw))
          /\ pending_commands' = table
          /\ task' = [task EXCEPT ![t] = [pc |-> "confirm_exec", now |-> now,
                                          snap |-> snap, idx |-> j,
                                          executed |-> executed_commands,
                                          kw |-> kw, nsub |-> nsub]]
          /\ ret' = NoReturn
    ELSE  /\ log' = log
          /\ pending_commands' = CleanUp(table, now)
          /\ task' = [task EXCEPT ![t] = IdleTask]
          /\ ret' = ConfirmOutcome(executed_commands, now, nsub)

(* Mutant of ConfirmLoop: the entry's key is deleted before the executor   *)
(* is called for it.                                                       *)
ConfirmLoop_DeleteFirst(t, now, snap, i, executed_commands, table, kw, nsub) ==
    LET live == { j \in i..Len(snap) : NotExpired(now, snap[j]) } IN
    IF live # {}
    THEN LET j == CHOOSE k \in live : \A m \in live : k <= m
             e == snap[j]
         IN
          /\ log' = Append(log, Invocation("confirm", e.uid, e.command,
                                           e.parameters, e.timestamp, now, kw))
          /\ pending_commands' = DictDel(table, e.id)
          /\ task' = [task EXCEPT ![t] = [pc |-> "confirm_exec", now |-> now,
                                          snap |-> snap, idx |-> j,
                                          executed |-> executed_commands,
                                          kw |-> kw, nsub |-> nsub]]
          /\ ret' = NoReturn
    ELSE  /\ log' = log
          /\ pending_commands' = CleanUp(table, now)
          /\ task' = [task EXCEPT ![t] = IdleTask]
          /\ ret' = ConfirmOutcome(executed_commands, now, nsub)

(* confirm_command's for loop over list(self.pending_commands.items()),    *)
(* from position i of the snapshot up to the next await or to the return:  *)
(* entries that have timed out are passed over; the first one that has not *)
(* is handed to _execute_internal, which is awaited; after the last one    *)
(* the table is cleaned up and the summary returned.  table is the pending *)
(* table as this step has changed it so far.                               *)
ConfirmLoop(t, now, snap, i, executed_commands, table, kw, nsub) ==
    LET live == { j \in i..Len(snap) : NotExpired(now, snap[j]) } IN
    IF live # {}
    THEN LET j == CHOOSE k \in live : \A m \in live : k <= m
             e == snap[j]
         IN
          /\ log' = Append(log, Invocation("confirm", e.uid, e.command,
                                           e.parameters, e.timestamp, now, kw))
          /\ pending_commands' = table
          /\ task' = [task EXCEPT ![t] = [pc |-> "confirm_exec", now |-> now,
                                          snap |-> snap, idx |-> j,
                                          executed |-> executed_commands,
                                          kw |-> kw, nsub |-> nsub]]
          /\ ret' = NoReturn
    ELSE  /\ log' = log
          /\ pending_commands' = CleanUp(table, now)
          /\ task' = [task EXCEPT ![t] = IdleTask]
          /\ ret' = ConfirmOutcome(executed_commands, now, nsub)

(* confirm_command with a text that does not contain the keyword *)
ConfirmInvalid(t, text) ==
    /\ Free(t)
    /\ ~Accepted(text)
    /\ ret' = RejectedOutcome
    /\ UNCHANGED <<confirmation_keyword, elapsed, confirmation_callback, pending_commands,
                   clock, task, log, submits, notifications>>

(* confirm_command with a text that contains the keyword: current_time is  *)
(* read, the table is copied, and the loop runs to its first await.        *)
ConfirmStart(t, text) ==
    /\ Free(t)
    /\ Accepted(text)
    /\ ConfirmLoop(t, clock, pending_commands, 1, <<>>, pending_commands,
                   text \in Containing[confirmation_keyword], Len(submits))
    /\ UNCHANGED <<confirmation_keyword, elapsed, confirmation_callback, clock,
                   submits, notifications>>

(* Mutant of ConfirmResume: the clock is read again for the rest of the    *)
(* loop and for the clean up.                                              *)
ConfirmResume_ReadsClockAgain(t, result) ==
    /\ task[t].pc = "confirm_exec"
    /\ LET e == task[t].snap[task[t].idx] IN
        /\ result \in ExecutorResults(e.command)
        /\ e.id \in Ids(pending_commands)
        /\ ConfirmLoop(t, clock, task[t].snap, task[t].idx + 1,
                       Append(task[t].executed,
                              [command |-> e.command, result |-> result, uid |-> e.uid]),
                       DictDel(pending_commands, e.id), task[t].kw, task[t].nsub)
    /\ UNCHANGED <<confirmation_keyword, elapsed, confirmation_callback, clock,
                   submits, notifications>>

(* _execute_internal returns to confirm_command: the result is appended,   *)
(* the entry's key is deleted, and the loop goes on.                       *)
ConfirmResume(t, result) ==
    /\ task[t].pc = "confirm_exec"
    /\ LET e == task[t].snap[task[t].idx] IN
        /\ result \in ExecutorResults(e.command)
        /\ e.id \in Ids(pending_commands)
        /\ ConfirmLoop(t, task[t].now, task[t].snap, task[t].idx + 1,
                       Append(task[t].executed,
                              [command |-> e.command, result |-> result, uid |-> e.uid]),
                       DictDel(pending_commands, e.id), task[t].kw, task[t].nsub)
    /\ UNCHANGED <<confirmation_keyword, elapsed, confirmation_callback, clock,
                   submits, notifications>>

(* _execute_internal returns to confirm_command, and the entry's key is no *)
(* longer in the table: del raises KeyError, which nothing in              *)
(* confirm_command catches.                                                *)
ConfirmKeyError(t, result) ==
    /\ task[t].pc = "confirm_exec"
    /\ LET e == task[t].snap[task[t].idx] IN
        /\ result \in ExecutorResults(e.command)
        /\ e.id \notin Ids(pending_commands)
    /\ ret' = RaisedOutcome("confirm", "KeyError")
    /\ task' = [task EXCEPT ![t] = IdleTask]
    /\ UNCHANGED <<confirmation_keyword, elapsed, confirmation_callback, pending_commands,
                   clock, log, submits, notifications>>

----------------------------------------------------------------------------
(* get_pending_commands *)

(* Mutant of PendingList: the timed out entries are listed too. *)
(* Mutant of PendingList: an entry whose age equals the timeout is left out. *)
PendingList_Strict(table, now) ==
    LET live == SelectSeq(table, LAMBDA e : now - e.timestamp < TimeoutTicks) IN
    [i \in 1..Len(live) |->
        [id |-> live[i].id, command |-> live[i].command,
         risk_level |-> live[i].risk_level,
         time_remaining |-> TimeoutTicks - (now - live[i].timestamp)]]

PendingList_All(table, now) ==
    [i \in 1..Len(table) |->
        [id |-> table[i].id, command |-> table[i].command,
         risk_level |-> table[i].risk_level,
         time_remaining |-> TimeoutTicks - (now - table[i].timestamp)]]

(* The list get_pending_commands builds from a table at a clock reading *)
PendingList(table, now) ==
    LET live == SelectSeq(table, LAMBDA e : NotExpired(now, e)) IN
    [i \in 1..Len(live) |->
        [id |-> live[i].id, command |-> live[i].command,
         risk_level |-> live[i].risk_level,
         time_remaining |-> TimeoutTicks - (now - live[i].timestamp)]]

(* get_pending_commands: no await in it, so it runs between any two steps  *)
(* of the tasks; it assigns nothing to self.pending_commands.              *)
get_pending_commands ==
    /\ ret' = [op |-> "list", kind |-> "listed",
               items |-> PendingList(pending_commands, clock)]
    /\ UNCHANGED <<confirmation_keyword, elapsed, confirmation_callback, pending_commands,
                   clock, task, log, submits, notifications>>

----------------------------------------------------------------------------

Results == UNION { ExecutorResults(c) : c \in Commands }

Next ==
    \/ \E d \in TickSteps : Tick(d)
          /\ UNCHANGED <<assistantVars, speechVars>>
    \/ set_confirmation_callback
          /\ UNCHANGED <<assistantVars, speechVars>>
    \/ \E t \in Tasks, c \in Commands : SubmitSafe(t, c)
          /\ UNCHANGED <<assistantVars, speechVars>>
    \/ \E t \in Tasks, c \in Commands : SubmitPending(t, c)
          /\ UNCHANGED <<assistantVars, speechVars>>
    \/ \E t \in Tasks, r \in Results : SubmitSafeReturn(t, r)
          /\ UNCHANGED <<assistantVars, speechVars>>
    \/ \E t \in Tasks, o \in {"ok", "failed"} : SubmitPendingReturn(t, o)
          /\ UNCHANGED <<assistantVars, speechVars>>
    \/ \E t \in Tasks, u \in Utterances : ConfirmInvalid(t, u)
          /\ UNCHANGED <<assistantVars, speechVars>>
    \/ \E t \in Tasks, u \in Utterances : ConfirmStart(t, u)
          /\ UNCHANGED <<assistantVars, speechVars>>
    \/ \E t \in Tasks, r \in Results : ConfirmResume(t, r)
          /\ UNCHANGED <<assistantVars, speechVars>>
    \/ \E t \in Tasks, r \in Results : ConfirmKeyError(t, r)
          /\ UNCHANGED <<assistantVars, speechVars>>
    \/ get_pending_commands
          /\ UNCHANGED <<assistantVars, speechVars>>

Spec == Init /\ [][Next]_vars

(* The gate with one call at a time: every call runs to its return before *)
(* the next one begins, as when a single task awaits each call.  The del   *)
(* of confirm_command then always finds its key.                           *)
NextSerial ==
    \/ \E d \in TickSteps : Tick(d)
          /\ UNCHANGED <<assistantVars, speechVars>>
    \/ set_confirmation_callback
          /\ UNCHANGED <<assistantVars, speechVars>>
    \/ \E t \in {1}, c \in Commands : SubmitSafe(t, c)
          /\ UNCHANGED <<assistantVars, speechVars>>
    \/ \E t \in {1}, c \in Commands : SubmitPending(t, c)
          /\ UNCHANGED <<assistantVars, speechVars>>
    \/ \E t \in {1}, r \in Results : SubmitSafeReturn(t, r)
          /\ UNCHANGED <<assistantVars, speechVars>>
    \/ \E t \in {1}, o \in {"ok", "failed"} : SubmitPendingReturn(t, o)
          /\ UNCHANGED <<assistantVars, speechVars>>
    \/ \E t \in {1}, u \in Utterances : ConfirmInvalid(t, u)
          /\ UNCHANGED <<assistantVars, speechVars>>
    \/ \E t \in {1}, u \in Utterances : ConfirmStart(t, u)
          /\ UNCHANGED <<assistantVars, speechVars>>
    \/ \E t \in {1}, r \in Results : ConfirmResume(t, r)
          /\ UNCHANGED <<assistantVars, speechVars>>
    \/ task[1].pc = "idle" /\ get_pending_commands
          /\ UNCHANGED <<assistantVars, speechVars>>

SpecSerial == Init /\ [][NextSerial]_vars

(* A controller constructed with any of the keywords, its calls made one   *)
(* at a time.                                                              *)
InitConfigured ==
    /\ confirmation_keyword \in Keywords
    /\ confirmation_callback = "none"
    /\ pending_commands = <<>>
    /\ clock = 0
    /\ task = [t \in Tasks |-> IdleTask]
    /\ ret = NoReturn
    /\ log = <<>>
    /\ submits = <<>>
    /\ notifications = <<>>
    /\ elapsed = 0
    /\ AssistantInit
    /\ SpeechInit

SpecConfigured == InitConfigured /\ [][NextSerial]_vars

(* The gate, its calls made one at a time, on a machine whose system clock *)
(* can be set while commands are pending.                                  *)
NextAdjust ==
    \/ NextSerial
    \/ \E d \in ClockAdjustments : AdjustClock(d)
          /\ UNCHANGED <<assistantVars, speechVars>>

SpecAdjust == Init /\ [][NextAdjust]_vars

(* Every command of the risk table, and one that is not in it *)
AllCommands == DOMAIN command_risks \cup {"format_disk"}

AllResults == UNION { ExecutorResults(c) : c \in AllCommands }

(* The submits of a caller that submits any command, one call at a time,   *)
(* and confirms none.                                                      *)
NextClassify ==
    \/ \E d \in TickSteps : Tick(d)
          /\ UNCHANGED <<assistantVars, speechVars>>
    \/ set_confirmation_callback
          /\ UNCHANGED <<assistantVars, speechVars>>
    \/ \E t \in {1}, c \in AllCommands : SubmitSafe(t, c)
          /\ UNCHANGED <<assistantVars, speechVars>>
    \/ \E t \in {1}, c \in AllCommands : SubmitPending(t, c)
          /\ UNCHANGED <<assistantVars, speechVars>>
    \/ \E t \in {1}, r \in AllResults : SubmitSafeReturn(t, r)
          /\ UNCHANGED <<assistantVars, speechVars>>
    \/ \E t \in {1}, o \in {"ok", "failed"} : SubmitPendingReturn(t, o)
          /\ UNCHANGED <<assistantVars, speechVars>>
    \/ task[1].pc = "idle" /\ get_pending_commands
          /\ UNCHANGED <<assistantVars, speechVars>>

SpecClassify == Init /\ [][NextClassify]_vars

(* The controller's variables, which the speech manager and the handler's  *)
(* own steps leave alone.                                                  *)
controllerVars == <<confirmation_keyword, confirmation_callback, pending_commands,
                    clock, task, ret, log, submits, notifications, elapsed>>

(* The same without what the last step returned: a step of the handler in  *)
(* which no call of the controller ends returns nothing from it.           *)
gateVars == <<confirmation_keyword, confirmation_callback, pending_commands,
              clock, task, log, submits, notifications, elapsed>>

----------------------------------------------------------------------------
(* WindowsAIAssistant._on_voice_command *)

(* The most utterances given to the handler in a run *)
MaxVoice == 2

(* The content _get_ai_response returns when the chat call has failed *)
Apology ==
    <<"I","'","m"," ","s","o","r","r","y",","," ","I","'","m"," ",
    "h","a","v","i","n","g"," ","t","r","o","u","b","l","e"," ",
    "p","r","o","c","e","s","s","i","n","g"," ","y","o","u","r",
    " ","r","e","q","u","e","s","t"," ","r","i","g","h","t"," ",
    "n","o","w",".">>

(* What the language model answers *)
Responses ==
    { <<"O","K">>,
      <<"O","p","e","n","i","n","g"," ","c","a","l","c","u","l","a",
        "t","o","r">>,
      <<"l","a","u","n","c","h">>,
      <<"s","h","u","t","d","o","w","n">>,
      <<"r","e","s","t","a","r","t">>,
      <<"l","o","c","k">>,
      <<"l","o","c","k"," ","a","n","d"," ","s","h","u","t","d","o",
        "w","n">>,
      Apology }

(* _process_ai_response: the command that is submitted for a response,     *)
(* "none" when it submits nothing.                                         *)
ProcessedCommand(response) ==
    LET response_lower == lower(response)
        has(w) == IsSubstring(w, response_lower)
    IN
    IF has(<<"l","a","u","n","c","h">>) \/ has(<<"o","p","e","n">>)
    THEN IF    has(<<"c","a","l","c","u","l","a","t","o","r">>)
            \/ has(<<"n","o","t","e","p","a","d">>)
            \/ has(<<"c","h","r","o","m","e">>)
            \/ has(<<"e","x","p","l","o","r","e","r">>)
         THEN "launch_app"
         ELSE "none"
    ELSE IF has(<<"s","h","u","t","d","o","w","n">>) THEN "shutdown"
    ELSE IF has(<<"r","e","s","t","a","r","t">>) THEN "restart"
    ELSE IF has(<<"l","o","c","k">>) THEN "lock_workstation"
    ELSE "none"

Processed == [r \in Responses |-> ProcessedCommand(r)]

(* Mutant of IsConfirmation: only the keyword alone is a confirmation. *)
IsConfirmation_Exact(text) == lower(text) = lower(confirmation_keyword)

(* self.config.confirmation_keyword.lower() in command_text.lower(); the   *)
(* controller was constructed with self.config.confirmation_keyword.       *)
IsConfirmation(text) == text \in Containing[confirmation_keyword]

HandlerFree(h) ==
    /\ handler[h].pc = "idle"
    /\ \A g \in Handlers : g < h => handler[g].pc # "idle"

(* What is left of the handler once a call of the controller has been      *)
(* made in slot t: it waits when the call is suspended, and otherwise      *)
(* speaks the message and returns.                                         *)
AfterCall(h, t, pc, text) ==
    handler' = [handler EXCEPT ![h] =
                    IF task'[t].pc = "idle" THEN IdleHandler
                    ELSE [pc |-> pc, text |-> text, slot |-> t]]

(* An utterance with the keyword: confirm_command is awaited *)
VoiceConfirm(h, text) ==
    /\ HandlerFree(h)
    /\ Len(voice) < MaxVoice
    /\ IsConfirmation(text)
    /\ voice' = Append(voice, text)
    /\ \E t \in Tasks :
          /\ ConfirmStart(t, text) \/ ConfirmInvalid(t, text)
          /\ AfterCall(h, t, "confirm", text)
    /\ UNCHANGED <<conversation_history, chats, speechVars>>

(* The executor returns to the confirm_command that the handler awaits;    *)
(* a KeyError of confirm_command is caught at the handler's except clause. *)
VoiceConfirmResume(h, result) ==
    /\ handler[h].pc = "confirm"
    /\ \/ ConfirmResume(handler[h].slot, result)
       \/ ConfirmKeyError(handler[h].slot, result)
    /\ AfterCall(h, handler[h].slot, "confirm", handler[h].text)
    /\ UNCHANGED <<conversation_history, chats, voice, speechVars>>

(* Any other utterance: it is appended to the history, and                 *)
(* _get_ai_response is awaited.                                            *)
VoiceChat(h, text) ==
    /\ HandlerFree(h)
    /\ Len(voice) < MaxVoice
    /\ ~IsConfirmation(text)
    /\ voice' = Append(voice, text)
    /\ conversation_history' =
          Append(conversation_history, [role |-> "user", content |-> text])
    /\ chats' = Append(chats, text)
    /\ handler' = [handler EXCEPT ![h] = [pc |-> "chat", text |-> text]]
    /\ ret' = NoReturn
    /\ UNCHANGED <<gateVars, speechVars>>

(* _process_ai_response and the speaking of the response: execute_command  *)
(* is awaited for the command found in the response, if any.               *)
Process(h, text, response) ==
    IF Processed[response] = "none"
    THEN /\ handler' = [handler EXCEPT ![h] = IdleHandler]
         /\ ret' = NoReturn
         /\ UNCHANGED gateVars
    ELSE \E t \in Tasks :
            /\ \/ SubmitSafe(t, Processed[response])
               \/ SubmitPending(t, Processed[response])
            /\ AfterCall(h, t, "execute", text)

(* _get_ai_response returns, the response is appended to the history, and  *)
(* the memory store is not connected.                                      *)
ChatReturn(h, response) ==
    /\ handler[h].pc = "chat"
    /\ conversation_history' =
          Append(conversation_history, [role |-> "assistant", content |-> response])
    /\ Process(h, handler[h].text, response)
    /\ UNCHANGED <<chats, voice, speechVars>>

(* _get_ai_response returns, the response is appended to the history, and  *)
(* store_interaction is awaited.                                           *)
ChatReturnStore(h, response) ==
    /\ handler[h].pc = "chat"
    /\ conversation_history' =
          Append(conversation_history, [role |-> "assistant", content |-> response])
    /\ handler' = [handler EXCEPT ![h] =
                      [pc |-> "store", text |-> handler[h].text,
                       response |-> response]]
    /\ ret' = NoReturn
    /\ UNCHANGED <<gateVars, chats, voice, speechVars>>

(* store_interaction returns or raises *)
StoreReturn(h) ==
    /\ handler[h].pc = "store"
    /\ Process(h, handler[h].text, handler[h].response)
    /\ UNCHANGED <<conversation_history, chats, voice, speechVars>>

(* The executor or the notifier returns to the execute_command that the    *)
(* handler awaits.                                                         *)
ExecuteReturn(h) ==
    /\ handler[h].pc = "execute"
    /\ \/ \E r \in AllResults : SubmitSafeReturn(handler[h].slot, r)
       \/ \E o \in {"ok", "failed"} : SubmitPendingReturn(handler[h].slot, o)
    /\ handler' = [handler EXCEPT ![h] = IdleHandler]
    /\ UNCHANGED <<conversation_history, chats, voice, speechVars>>

(* The assistant after start(): the controller has the notifier *)
InitAssistant ==
    /\ confirmation_keyword \in Keywords
    /\ confirmation_callback = "set"
    /\ pending_commands = <<>>
    /\ clock = 0
    /\ task = [t \in Tasks |-> IdleTask]
    /\ ret = NoReturn
    /\ log = <<>>
    /\ submits = <<>>
    /\ notifications = <<>>
    /\ elapsed = 0
    /\ AssistantInit
    /\ SpeechInit

NextAssistant ==
    \/ \E d \in TickSteps : Tick(d)
          /\ UNCHANGED <<assistantVars, speechVars>>
    \/ \E h \in Handlers, u \in Utterances : VoiceConfirm(h, u)
    \/ \E h \in Handlers, r \in AllResults : VoiceConfirmResume(h, r)
    \/ \E h \in Handlers, u \in Utterances : VoiceChat(h, u)
    \/ \E h \in Handlers, r \in Responses : ChatReturn(h, r)
    \/ \E h \in Handlers, r \in Responses : ChatReturnStore(h, r)
    \/ \E h \in Handlers : StoreReturn(h)
    \/ \E h \in Handlers : ExecuteReturn(h)

SpecAssistant == InitAssistant /\ [][NextAssistant]_vars

----------------------------------------------------------------------------
(* SpeechRecognitionManager *)

(* The wake word the manager is constructed with, lower-cased *)
WakeWord == <<"a","s","s","i","s","t","a","n","t">>

(* The texts that the transcription hands to _handle_transcription *)
Transcripts ==
    { WakeWord,
      <<"a","s","s","i","s","t","a","n","t"," ","l","o","c","k">>,
      <<"l","o","c","k">>,
      <<"o","k">>,
      <<" ","o","k"," ">> }

(* str.strip() *)
RECURSIVE strip(_)
strip(s) ==
    IF s = <<>> THEN s
    ELSE IF Head(s) = " " THEN strip(Tail(s))
    ELSE IF s[Len(s)] = " " THEN strip(SubSeq(s, 1, Len(s) - 1))
    ELSE s

(* Mutant of Transcribed: the wake word state is not reset after a command. *)
Transcribed_NoReset(detected, text, loop, wake_cb, command_cb) ==
    IF ~detected
    THEN IF IsSubstring(WakeWord, text)
         THEN [detected |-> TRUE,
               dispatched |-> IF wake_cb = "set" /\ loop THEN "wake" ELSE "none",
               raised |-> wake_cb = "set" /\ ~loop]
         ELSE [detected |-> FALSE, dispatched |-> "none", raised |-> FALSE]
    ELSE IF text # <<>> /\ Len(strip(text)) > 2
         THEN IF command_cb = "set"
              THEN IF loop
                   THEN [detected |-> TRUE, dispatched |-> "command",
                         raised |-> FALSE]
                   ELSE [detected |-> TRUE, dispatched |-> "none", raised |-> TRUE]
              ELSE [detected |-> TRUE, dispatched |-> "none", raised |-> FALSE]
         ELSE [detected |-> TRUE, dispatched |-> "none", raised |-> FALSE]

(* The body of _handle_transcription: the new wake word state, the         *)
(* callback for which asyncio.create_task made a task, and whether         *)
(* create_task raised because the calling thread runs no event loop.       *)
Transcribed(detected, text, loop, wake_cb, command_cb) ==
    IF ~detected
    THEN IF IsSubstring(WakeWord, text)
         THEN [detected |-> TRUE,
               dispatched |-> IF wake_cb = "set" /\ loop THEN "wake" ELSE "none",
               raised |-> wake_cb = "set" /\ ~loop]
         ELSE [detected |-> FALSE, dispatched |-> "none", raised |-> FALSE]
    ELSE IF text # <<>> /\ Len(strip(text)) > 2
         THEN IF command_cb = "set"
              THEN IF loop
                   THEN [detected |-> FALSE, dispatched |-> "command",
                         raised |-> FALSE]
                   ELSE [detected |-> TRUE, dispatched |-> "none", raised |-> TRUE]
              ELSE [detected |-> FALSE, dispatched |-> "none", raised |-> FALSE]
         ELSE [detected |-> TRUE, dispatched |-> "none", raised |-> FALSE]

(* _handle_transcription(text), called in a thread that runs the event     *)
(* loop (loop) or in one that runs none, such as the processing thread.    *)
handle_transcription(text, loop) ==
    /\ Len(transcriptions) < MaxHeard
    /\ LET r == Transcribed(is_wake_word_detected, text, loop,
                            wake_word_callback, command_callback)
       IN
        /\ is_wake_word_detected' = r.detected
        /\ transcriptions' = Append(transcriptions,
                                    [text |-> text, before |-> is_wake_word_detected,
                                     after |-> r.detected,
                                     dispatched |-> r.dispatched,
                                     raised |-> r.raised])
    /\ UNCHANGED <<wake_word_callback, command_callback>>

set_wake_word_callback ==
    /\ wake_word_callback' = "set"
    /\ UNCHANGED <<is_wake_word_detected, command_callback, transcriptions>>

set_command_callback ==
    /\ command_callback' = "set"
    /\ UNCHANGED <<is_wake_word_detected, wake_word_callback, transcriptions>>

NextSpeech ==
    \/ \E text \in Transcripts, loop \in BOOLEAN : handle_transcription(text, loop)
          /\ UNCHANGED <<controllerVars, assistantVars>>
    \/ set_wake_word_callback
          /\ UNCHANGED <<controllerVars, assistantVars>>
    \/ set_command_callback
          /\ UNCHANGED <<controllerVars, assistantVars>>

SpecSpeech == Init /\ [][NextSpeech]_vars

----------------------------------------------------------------------------
(* Properties *)

Uids(table) == { table[i].uid : i \in 1..Len(table) }

NonSafe(command) == RiskOf(command) # "SAFE"

Runs(uid) == { i \in 1..Len(log) : log[i].uid = uid }

(* C1: the executor is invoked for an action that is not SAFE (MODERATE,   *)
(* HIGH, CRITICAL, or not in the risk table) only by a confirm call whose  *)
(* text contains the keyword, and only for an entry that an earlier submit *)
(* stored and whose age at that call's reading of the clock is at most the *)
(* timeout; submit never invokes it for such an action.                    *)
C1_GatedExecution ==
    \A i \in 1..Len(log) :
        NonSafe(log[i].command) =>
            /\ log[i].via = "confirm"
            /\ log[i].kw
            /\ \E k \in 1..Len(submits) :
                  /\ submits[k].uid = log[i].uid
                  /\ submits[k].command = log[i].command
                  /\ submits[k].at = log[i].timestamp
                  /\ submits[k].command_id # <<>>
            /\ log[i].now - log[i].timestamp <= command_timeout * TicksPerSecond

(* C1, witness: a command that is not in the risk table has been executed  *)
(* by a confirm whose reading of the clock was exactly the timeout after   *)
(* the submit, and a MODERATE one has been executed too.                   *)
C1_Witness ==
    /\ \E i \in 1..Len(log) :
          /\ log[i].command = "format_disk"
          /\ log[i].now - log[i].timestamp = command_timeout * TicksPerSecond
    /\ \E i \in 1..Len(log) : log[i].command = "create_file"

(* C2: when a confirm with the keyword returns, every entry submitted      *)
(* before that call began and at most timeout old at the call's reading of *)
(* the clock has been executed exactly once and is no longer in the table; *)
(* an entry that no confirm reached in time has never been executed, is no *)
(* longer in the table, and the call reports failure when it executed      *)
(* nothing.                                                                *)
C2_ConfirmedInTimeRunsOnce ==
    (ret.op = "confirm" /\ ret.kind \in {"executed", "nothing"}) =>
        \A k \in 1..ret.nsub :
            NonSafe(submits[k].command) =>
                LET inTime == ret.now - submits[k].at <= command_timeout * TicksPerSecond
                    ranInTime == \E i \in Runs(k) :
                        log[i].now - submits[k].at <= command_timeout * TicksPerSecond
                IN  /\ inTime => (Cardinality(Runs(k)) = 1 /\ k \notin Uids(pending_commands))
                    /\ (~inTime /\ ~ranInTime) =>
                          /\ Runs(k) = {}
                          /\ k \notin Uids(pending_commands)
                          /\ (ret.executed = <<>> => ~ret.success)

C4_UniqueIds ==
    \A k, l \in 1..Len(submits) :
        (k # l /\ NonSafe(submits[k].command) /\ NonSafe(submits[l].command)) =>
            submits[k].command_id # submits[l].command_id

(* C5: a submit of an action classified MODERATE, HIGH or CRITICAL makes   *)
(* the pending table one entry longer, does not invoke the executor, and   *)
(* returns a pending outcome.                                              *)
C5_SubmitAddsOneEntry ==
    [][ /\ \A t \in Tasks, c \in Commands :
              ((SubmitPending(t, c) \/ SubmitSafe(t, c))
                    /\ RiskOf(c) \in {"MODERATE", "HIGH", "CRITICAL"}) =>
                  /\ Len(pending_commands') = Len(pending_commands) + 1
                  /\ log' = log
                  /\ (task'[t].pc = "idle" => ret'.kind = "pending")
        /\ \A t \in Tasks, o \in {"ok", "failed"} :
              SubmitPendingReturn(t, o) => (ret'.kind = "pending" /\ log' = log)
      ]_vars

(* C6: a submit of an action classified SAFE invokes the executor once, at *)
(* once, and returns what the executor returns; neither of its steps calls *)
(* the notifier or changes the pending table.                              *)
C6_SafeRunsAtOnce ==
    [][ /\ \A t \in Tasks, c \in Commands :
              ((SubmitPending(t, c) \/ SubmitSafe(t, c)) /\ RiskOf(c) = "SAFE") =>
                  /\ Len(log') = Len(log) + 1
                  /\ SubSeq(log', 1, Len(log)) = log
                  /\ log'[Len(log')].command = c
                  /\ log'[Len(log')].via = "submit"
                  /\ log'[Len(log')].uid = Len(submits')
                  /\ pending_commands' = pending_commands
                  /\ notifications' = notifications
        /\ \A t \in Tasks, r \in Results :
              SubmitSafeReturn(t, r) =>
                  /\ ret'.op = "submit"
                  /\ ret'.pending = FALSE
                  /\ ret'.success = r.success
                  /\ ret'.message = r.message
                  /\ log' = log
                  /\ pending_commands' = pending_commands
                  /\ notifications' = notifications
      ]_vars

(* C6, witness: a SAFE submit has returned the executor's success while an *)
(* earlier command is still pending.                                       *)
C6_Witness ==
    /\ ret.op = "submit"
    /\ ret.kind = "executed"
    /\ ret.success
    /\ Len(pending_commands) = 1
    /\ Len(log) = 1
    /\ notifications = <<>>

(* The entries of a table that are at most timeout old at the reading now  *)
InTime(table, now) ==
    SelectSeq(table, LAMBDA e : now - e.timestamp <= command_timeout * TicksPerSecond)

(* A step of a confirm call that invokes the executor: one invocation is   *)
(* added to the log, for the first of the call's entries in time that it   *)
(* has no result for yet.                                                  *)
C7_Invokes(t, before, after, call) ==
    LET live == InTime(call.snap, call.now) IN
    /\ Len(after) = Len(before) + 1
    /\ SubSeq(after, 1, Len(before)) = before
    /\ Len(call.executed) < Len(live)
    /\ after[Len(after)].uid = live[Len(call.executed) + 1].uid
    /\ after[Len(after)].now = call.now

(* C7: a confirm call with the keyword works on all the entries the table  *)
(* holds when it is called; each of its invocations of the executor is for *)
(* the next of them that was not expired at the call's reading of the      *)
(* clock; and when it returns, its list has one result for each of them,   *)
(* in their order.                                                         *)
C7_ConfirmRunsAll ==
    [][ \A t \in Tasks :
          /\ (\E u \in Utterances : ConfirmStart(t, u)) =>
                IF task'[t].pc = "confirm_exec"
                THEN /\ task'[t].snap = pending_commands
                     /\ task'[t].now = clock
                     /\ task'[t].executed = <<>>
                     /\ C7_Invokes(t, log, log', task'[t])
                ELSE /\ InTime(pending_commands, clock) = <<>>
                     /\ ret'.executed = <<>>
                     /\ log' = log
          /\ (\E r \in Results : ConfirmResume(t, r)) =>
                IF task'[t].pc = "confirm_exec"
                THEN /\ task'[t].snap = task[t].snap
                     /\ task'[t].now = task[t].now
                     /\ Len(task'[t].executed) = Len(task[t].executed) + 1
                     /\ C7_Invokes(t, log, log', task'[t])
                ELSE LET live == InTime(task[t].snap, task[t].now) IN
                     /\ log' = log
                     /\ Len(ret'.executed) = Len(live)
                     /\ \A i \in 1..Len(live) :
                           /\ ret'.executed[i].uid = live[i].uid
                           /\ ret'.executed[i].command = live[i].command
      ]_vars

(* C7, witness: one confirm has returned a list with the results of two    *)
(* pending commands, the older of them first.                              *)
C7_Witness ==
    /\ ret.op = "confirm"
    /\ ret.kind = "executed"
    /\ Len(ret.executed) = 2
    /\ ret.executed[1].uid = 1
    /\ ret.executed[2].uid = 2
    /\ pending_commands = <<>>

(* C8: a confirm call whose text does not contain the keyword, letter case *)
(* ignored, does not invoke the executor, returns a failure, and leaves    *)
(* the pending table as it is.                                             *)
C8_WrongKeywordDoesNothing ==
    [][ \A t \in Tasks, u \in Utterances :
          (u \notin Containing[confirmation_keyword]
                /\ (ConfirmInvalid(t, u) \/ ConfirmStart(t, u))) =>
              /\ log' = log
              /\ pending_commands' = pending_commands
              /\ ret'.op = "confirm"
              /\ ret'.success = FALSE
      ]_vars

(* C8, witness: a confirm without the keyword has been rejected while the  *)
(* table holds an entry that is exactly timeout old, and nothing has been  *)
(* executed.                                                               *)
C8_Witness ==
    /\ ret.op = "confirm"
    /\ ret.kind = "invalid"
    /\ Len(pending_commands) = 1
    /\ clock - pending_commands[1].timestamp = command_timeout * TicksPerSecond
    /\ log = <<>>

(* C9: after a listPending call the table holds no expired entry.          *)
C9_ListSweeps ==
    ret.op = "list" =>
        \A i \in 1..Len(pending_commands) :
            clock - pending_commands[i].timestamp <= command_timeout * TicksPerSecond

(* C10: listPending returns exactly the entries of the table that are at   *)
(* most timeout old, in the table's order, each with the time it has left, *)
(* which is never negative.                                                *)
C10_ListReturnsLive ==
    ret.op = "list" =>
        LET live == InTime(pending_commands, clock) IN
        /\ Len(ret.items) = Len(live)
        /\ \A i \in 1..Len(ret.items) :
              /\ ret.items[i].id = live[i].id
              /\ ret.items[i].command = live[i].command
              /\ ret.items[i].time_remaining =
                    command_timeout * TicksPerSecond - (clock - live[i].timestamp)
              /\ ret.items[i].time_remaining >= 0
              /\ clock - live[i].timestamp <= command_timeout * TicksPerSecond

(* C10, witness: a list call has returned the one entry that is exactly    *)
(* timeout old, with no time left, and has left out an older one that is   *)
(* still in the table.                                                     *)
C10_Witness ==
    /\ ret.op = "list"
    /\ Len(pending_commands) = 2
    /\ Len(ret.items) = 1
    /\ ret.items[1].time_remaining = 0
    /\ ret.items[1].id = pending_commands[2].id

(* C11: with one call at a time, when a confirm call with the keyword      *)
(* returns, the pending table is empty; each entry that was in the table   *)
(* at the call and in time at the call's reading of the clock has a result *)
(* in the returned list, and each entry that had timed out has never been  *)
(* passed to the executor.                                                 *)
C11_ConfirmEmptiesTable ==
    [][ /\ (\E u \in Utterances : ConfirmStart(1, u)) =>
              (task'[1].pc = "idle" =>
                  /\ pending_commands' = <<>>
                  /\ ret'.executed = <<>>
                  /\ \A i \in 1..Len(pending_commands) :
                        /\ clock - pending_commands[i].timestamp
                               > command_timeout * TicksPerSecond
                        /\ \A n \in 1..Len(log') :
                              log'[n].uid # pending_commands[i].uid)
        /\ (\E r \in Results : ConfirmResume(1, r)) =>
              (task'[1].pc = "idle" =>
                  /\ pending_commands' = <<>>
                  /\ \A i \in 1..Len(task[1].snap) :
                        LET e == task[1].snap[i] IN
                        IF task[1].now - e.timestamp <= command_timeout * TicksPerSecond
                        THEN \E j \in 1..Len(ret'.executed) : ret'.executed[j].uid = e.uid
                        ELSE \A n \in 1..Len(log') : log'[n].uid # e.uid)
      ]_vars

(* C11, witness: a confirm has returned after executing the one of two     *)
(* pending commands that was in time; the other had timed out; the table   *)
(* is empty.                                                               *)
C11_Witness ==
    /\ ret.op = "confirm"
    /\ ret.kind = "executed"
    /\ Len(ret.executed) = 1
    /\ ret.executed[1].uid = 2
    /\ Len(submits) = 2
    /\ submits[1].command_id # <<>>
    /\ submits[1].command_id # submits[2].command_id
    /\ Len(log) = 1
    /\ pending_commands = <<>>

(* C12: a confirm call with the keyword made when the pending table is     *)
(* empty returns a failure, does not invoke the executor and leaves the    *)
(* table empty, so that a second one after it does the same.               *)
C12_ConfirmOnEmptyTable ==
    [][ \A t \in Tasks :
          ((\E u \in Utterances : ConfirmStart(t, u)) /\ pending_commands = <<>>) =>
              /\ ret'.op = "confirm"
              /\ ret'.success = FALSE
              /\ ret'.executed = <<>>
              /\ log' = log
              /\ pending_commands' = <<>>
              /\ task' = task
      ]_vars

(* C12, witness: a confirm with the keyword has returned a failure on an   *)
(* empty table, nothing having been submitted or executed.                 *)
C12_Witness ==
    /\ ret.op = "confirm"
    /\ ret.kind = "nothing"
    /\ ~ret.success
    /\ submits = <<>>
    /\ pending_commands = <<>>
    /\ log = <<>>

(* C13: a submit of a command that is not in the risk table stores a       *)
(* pending entry for it, classified HIGH, does not invoke the executor,    *)
(* and returns a pending outcome.                                          *)
C13_UnknownIsHigh ==
    [][ /\ \A t \in Tasks, c \in Commands :
              ((SubmitSafe(t, c) \/ SubmitPending(t, c))
                    /\ c \notin DOMAIN command_risks) =>
                  /\ log' = log
                  /\ \E i \in 1..Len(pending_commands') :
                        /\ pending_commands'[i].uid = Len(submits')
                        /\ pending_commands'[i].command = c
                        /\ pending_commands'[i].risk_level = "HIGH"
                  /\ (task'[t].pc = "idle" =>
                        (ret'.op = "submit" /\ ret'.kind = "pending" /\ ret'.pending))
                  /\ (task'[t].pc # "idle" => task'[t].pc = "submit_notify")
        /\ \A t \in Tasks, o \in {"ok", "failed"} :
              (SubmitPendingReturn(t, o)
                    /\ task[t].command \notin DOMAIN command_risks) =>
                  /\ log' = log
                  /\ pending_commands' = pending_commands
                  /\ ret'.op = "submit"
                  /\ ret'.kind = "pending"
                  /\ ret'.pending
      ]_vars

(* C13, witness: a submit of format_disk, which the risk table does not    *)
(* have, has returned a pending outcome; its entry is in the table as      *)
(* HIGH and nothing has been executed.                                     *)
C13_Witness ==
    /\ ret.op = "submit"
    /\ ret.kind = "pending"
    /\ ret.command = "format_disk"
    /\ Len(pending_commands) = 1
    /\ pending_commands[1].command = "format_disk"
    /\ pending_commands[1].risk_level = "HIGH"
    /\ log = <<>>

(* C14: when the executor returns a failure for a command during a confirm *)
(* call, the call goes on: the failure is recorded with its command, the   *)
(* loop continues with the next entry in time, and when the call returns,  *)
(* its outcome is a success, its list has a result for every entry that    *)
(* was in time, and none of these entries is in the table.                 *)
C14_FailureDoesNotAbort ==
    [][ \A t \in Tasks, r \in Results :
          (r.success = FALSE /\ ConfirmResume(t, r)) =>
              LET e == task[t].snap[task[t].idx]
                  live == InTime(task[t].snap, task[t].now)
                  pair == [command |-> e.command, result |-> r, uid |-> e.uid]
              IN
              /\ e.uid \notin Uids(pending_commands')
              /\ IF task'[t].pc = "confirm_exec"
                 THEN /\ task'[t].executed = Append(task[t].executed, pair)
                      /\ C7_Invokes(t, log, log', task'[t])
                 ELSE /\ ret'.op = "confirm"
                      /\ ret'.success = TRUE
                      /\ ret'.executed = Append(task[t].executed, pair)
                      /\ Len(ret'.executed) = Len(live)
                      /\ \A i \in 1..Len(live) :
                            /\ ret'.executed[i].uid = live[i].uid
                            /\ live[i].uid \notin Uids(pending_commands')
      ]_vars

(* C14, witness: a confirm has returned success with two results, the      *)
(* first a failure of the executor and the second a success.               *)
C14_Witness ==
    /\ ret.op = "confirm"
    /\ ret.success
    /\ Len(ret.executed) = 2
    /\ ~ret.executed[1].result.success
    /\ ret.executed[2].result.success
    /\ Len(log) = 2
    /\ pending_commands = <<>>

(* C15: a confirm call with the keyword that returns without having        *)
(* invoked the executor returns a failure; one that has invoked it returns *)
(* success, and its list holds, for each invocation it made, one pair of   *)
(* the command and of what the executor returned for it.                   *)
C15_SuccessIffExecuted ==
    [][ \A t \in Tasks :
          /\ (\E u \in Utterances : ConfirmStart(t, u)) =>
                IF task'[t].pc = "confirm_exec"
                THEN /\ task'[t].executed = <<>>
                     /\ Len(log') = Len(log) + 1
                ELSE /\ log' = log
                     /\ ret'.op = "confirm"
                     /\ ret'.success = FALSE
                     /\ ret'.executed = <<>>
          /\ \A r \in Results :
                ConfirmResume(t, r) =>
                    LET e == task[t].snap[task[t].idx]
                        pair == [command |-> e.command, result |-> r, uid |-> e.uid]
                    IN
                    /\ \E n \in 1..Len(log) :
                          log[n].uid = e.uid /\ log[n].command = e.command
                    /\ IF task'[t].pc = "confirm_exec"
                       THEN /\ task'[t].executed = Append(task[t].executed, pair)
                            /\ Len(log') = Len(log) + 1
                       ELSE /\ log' = log
                            /\ ret'.op = "confirm"
                            /\ ret'.success = TRUE
                            /\ ret'.executed = Append(task[t].executed, pair)
      ]_vars

(* C15, witness: a confirm has returned a failure, having executed         *)
(* nothing, although the table held an entry: it had timed out.            *)
C15_Witness ==
    /\ ret.op = "confirm"
    /\ ret.kind = "nothing"
    /\ ~ret.success
    /\ Len(submits) = 1
    /\ submits[1].command_id # <<>>
    /\ ret.now - submits[1].at > command_timeout * TicksPerSecond
    /\ log = <<>>
    /\ pending_commands = <<>>

(* C16: with a notifier registered, a submit of a command that is not SAFE *)
(* calls it exactly once, for the entry it has stored; a submit of a SAFE  *)
(* command never calls it.  When the notifier call fails, submit returns   *)
(* the pending outcome all the same and the table is left as it is, so the *)
(* entry is there for a later confirm.                                     *)
C16_OneNotifierCall ==
    [][ /\ \A t \in Tasks, c \in Commands :
              (SubmitSafe(t, c) \/ SubmitPending(t, c)) =>
                  IF RiskOf(c) = "SAFE"
                  THEN notifications' = notifications
                  ELSE /\ confirmation_callback = "set" =>
                            /\ Len(notifications') = Len(notifications) + 1
                            /\ SubSeq(notifications', 1, Len(notifications)) = notifications
                            /\ notifications'[Len(notifications')].uid = Len(submits')
                       /\ Len(submits') \in Uids(pending_commands')
                       /\ (task'[t].pc = "idle" => ret'.kind = "pending")
        /\ \A t \in Tasks, r \in Results :
              SubmitSafeReturn(t, r) => notifications' = notifications
        /\ \A t \in Tasks, o \in {"ok", "failed"} :
              SubmitPendingReturn(t, o) =>
                  /\ notifications' = notifications
                  /\ pending_commands' = pending_commands
                  /\ ret'.kind = "pending"
                  /\ ret'.pending
                  /\ ret'.delivery = o
      ]_vars

(* C16, witness: with a notifier registered, a submit has returned its     *)
(* pending outcome after its one notifier call failed, and its entry is in *)
(* the table.                                                              *)
C16_Witness ==
    /\ ret.op = "submit"
    /\ ret.kind = "pending"
    /\ "delivery" \in DOMAIN ret
    /\ ret.delivery = "failed"
    /\ Len(notifications) = 1
    /\ Len(pending_commands) = 1
    /\ pending_commands[1].uid = notifications[1].uid

(* C17: the keyword that the pending outcome of a submit names is the      *)
(* configured keyword, and confirm accepts it as its text; the keyword in  *)
(* every notifier prompt is the configured keyword.                        *)
C17_MessageNamesKeyword ==
    /\ (ret.op = "submit" /\ ret.kind = "pending") =>
          /\ ret.says = confirmation_keyword
          /\ IsSubstring(lower(confirmation_keyword), lower(ret.says))
    /\ \A i \in 1..Len(notifications) :
          notifications[i].says = confirmation_keyword

(* C18: whether a confirm call takes a pending entry as in time depends on *)
(* the time that has passed since the entry's submit only: the entries the *)
(* call executes are those submitted at most the timeout before it, also   *)
(* when the system clock has been set in between.                          *)
C18_ElapsedTimeDecides ==
    [][ (\E u \in Utterances : ConfirmStart(1, u)) =>
          LET willRun ==
                IF task'[1].pc = "confirm_exec"
                THEN Uids(InTime(task'[1].snap, task'[1].now))
                ELSE {}
          IN  \A i \in 1..Len(pending_commands) :
                LET e == pending_commands[i] IN
                (elapsed - submits[e.uid].mono <= command_timeout * TicksPerSecond)
                    <=> (e.uid \in willRun)
      ]_vars

C20_OnlyConfirmResolves ==
    [][ \A i \in 1..Len(pending_commands) :
          LET e == pending_commands[i] IN
          (clock - e.timestamp <= command_timeout * TicksPerSecond
                /\ e.uid \notin Uids(pending_commands')) =>
              /\ \E t \in Tasks, r \in Results : ConfirmResume(t, r)
              /\ \E n \in 1..Len(log) :
                    log[n].uid = e.uid /\ log[n].via = "confirm"
      ]_vars

(* The table without the entries under a key *)
Without(table, id) == SelectSeq(table, LAMBDA x : x.id # id)

(* C21: a confirm call has the entries of its copy of the table executed   *)
(* one at a time in their order in the table: each invocation is for the   *)
(* first entry in time after the one before, whatever its risk level; the  *)
(* step that invokes the executor for an entry leaves that entry's key in  *)
(* the table, and the key is deleted in the step in which the executor's   *)
(* call for the entry has returned.                                        *)
C21_InOrderRemovedAfter ==
    [][ \A t \in Tasks :
          /\ (\E u \in Utterances : ConfirmStart(t, u)) =>
                (task'[t].pc = "confirm_exec" =>
                    LET j == task'[t].idx IN
                    /\ pending_commands' = pending_commands
                    /\ task'[t].snap = pending_commands
                    /\ clock - pending_commands[j].timestamp
                           <= command_timeout * TicksPerSecond
                    /\ \A m \in 1..(j - 1) :
                          clock - pending_commands[m].timestamp
                              > command_timeout * TicksPerSecond
                    /\ log'[Len(log')].uid = pending_commands[j].uid)
          /\ (\E r \in Results : ConfirmResume(t, r)) =>
                LET e == task[t].snap[task[t].idx] IN
                /\ e.id \in Ids(pending_commands)
                /\ e.id \notin Ids(pending_commands')
                /\ task'[t].pc = "confirm_exec" =>
                      LET j == task'[t].idx IN
                      /\ pending_commands' = Without(pending_commands, e.id)
                      /\ j > task[t].idx
                      /\ task[t].now - task[t].snap[j].timestamp
                             <= command_timeout * TicksPerSecond
                      /\ \A m \in (task[t].idx + 1)..(j - 1) :
                            task[t].now - task[t].snap[m].timestamp
                                > command_timeout * TicksPerSecond
                      /\ log'[Len(log')].uid = task[t].snap[j].uid
      ]_vars

(* C21, witness: one confirm has executed a CRITICAL command and then a    *)
(* MODERATE one, in the order of their submits.                            *)
C21_Witness ==
    /\ ret.op = "confirm"
    /\ ret.kind = "executed"
    /\ Len(ret.executed) = 2
    /\ ret.executed[1].command = "shutdown"
    /\ ret.executed[2].command = "create_file"
    /\ Len(log) = 2
    /\ log[1].uid = 1
    /\ log[2].uid = 2
    /\ pending_commands = <<>>

(* The invocations for a submit in a history of invocations *)
RunsIn(history, uid) == { n \in 1..Len(history) : history[n].uid = uid }

(* C22: a confirm call reads the clock once, when it begins, and keeps     *)
(* that reading however much time its executor calls take.  With one call  *)
(* at a time, when it returns, every entry that was in the table when it   *)
(* began has left the table: executed exactly once if it was in time at    *)
(* that reading, never executed if it was not.                             *)
C22_OneClockReading ==
    [][ /\ (\E u \in Utterances : ConfirmStart(1, u)) =>
              IF task'[1].pc = "confirm_exec"
              THEN task'[1].now = clock /\ task'[1].snap = pending_commands
              ELSE /\ ret'.now = clock
                   /\ \A i \in 1..Len(pending_commands) :
                         /\ pending_commands[i].uid \notin Uids(pending_commands')
                         /\ RunsIn(log', pending_commands[i].uid) = {}
        /\ (\E r \in Results : ConfirmResume(1, r)) =>
              IF task'[1].pc = "confirm_exec"
              THEN task'[1].now = task[1].now /\ task'[1].snap = task[1].snap
              ELSE /\ ret'.now = task[1].now
                   /\ \A i \in 1..Len(task[1].snap) :
                         LET e == task[1].snap[i] IN
                         /\ e.uid \notin Uids(pending_commands')
                         /\ Cardinality(RunsIn(log', e.uid)) =
                               IF task[1].now - e.timestamp
                                      <= command_timeout * TicksPerSecond
                               THEN 1 ELSE 0
      ]_vars

(* C22, witness: a confirm has returned after executing a command that was *)
(* in time at the call's reading of the clock and is older than the        *)
(* timeout now, time having passed during the executor's call.             *)
C22_Witness ==
    /\ ret.op = "confirm"
    /\ ret.kind = "executed"
    /\ clock > ret.now
    /\ \E n \in 1..Len(log) :
          /\ ret.now - log[n].timestamp <= command_timeout * TicksPerSecond
          /\ clock - log[n].timestamp > command_timeout * TicksPerSecond
    /\ pending_commands = <<>>

(* The risk levels of the commands that need confirmation *)
NonSafeTiers == {"MODERATE", "HIGH", "CRITICAL"}

(* A table with the risk levels of its entries replaced by those of f *)
Retiered(table, f) ==
    [i \in 1..Len(table) |-> [table[i] EXCEPT !.risk_level = f[i]]]

(* A table with the risk levels of its entries blanked *)
TierErased(table) ==
    [i \in 1..Len(table) |-> [table[i] EXCEPT !.risk_level = "any"]]

(* C23: the risk level of a pending command has no part in what the gate   *)
(* does with it.  At every step, for the table as it is and for the same   *)
(* table with any other levels (MODERATE, HIGH, CRITICAL) given to its     *)
(* entries: the same entries are in time, the clean up keeps the same      *)
(* entries, deleting a key leaves the same entries, and the list shows the *)
(* same ids with the same time left.  A submit stores the same entry and   *)
(* returns the same outcome whatever the level, which goes into the entry  *)
(* and into the notifier's prompt only; and neither the invocations of the *)
(* executor nor the results of a confirm carry a level.                    *)
C23_TierOnlyInPrompt ==
    [][ /\ \A f \in [1..Len(pending_commands) -> NonSafeTiers] :
              LET other == Retiered(pending_commands, f) IN
              /\ \A i \in 1..Len(pending_commands) :
                    NotExpired(clock, other[i]) <=> NotExpired(clock, pending_commands[i])
              /\ TierErased(CleanUp(other, clock))
                    = TierErased(CleanUp(pending_commands, clock))
              /\ \A id \in Ids(pending_commands) :
                    TierErased(DictDel(other, id))
                        = TierErased(DictDel(pending_commands, id))
              /\ TierErased(PendingList(other, clock))
                    = TierErased(PendingList(pending_commands, clock))
        /\ \A t \in Tasks, c \in Commands :
              SubmitPending(t, c) =>
                  LET uid == Len(submits')
                      stored == [id |-> <<c, clock \div TicksPerSecond>>,
                                 command |-> c, risk_level |-> "any",
                                 timestamp |-> clock, parameters |-> Kwargs(uid),
                                 uid |-> uid]
                  IN
                  /\ TierErased(pending_commands')
                        = DictSet(TierErased(pending_commands), stored)
                  /\ log' = log
                  /\ task'[t].pc = "idle" =>
                        /\ ret'.kind = "pending"
                        /\ ret'.command = c
                        /\ ret'.command_id = stored.id
                        /\ DOMAIN ret' \subseteq
                              {"op", "kind", "success", "pending", "command",
                               "command_id", "says", "delivery"}
                  /\ Len(notifications') > Len(notifications) =>
                        notifications'[Len(notifications')] =
                            [uid |-> uid, risk_level |-> RiskOf(c),
                             says |-> confirmation_keyword]
        /\ \A n \in 1..Len(log') : "risk_level" \notin DOMAIN log'[n]
        /\ (ret'.op = "confirm" /\ ret'.kind = "executed") =>
              \A i \in 1..Len(ret'.executed) :
                  DOMAIN ret'.executed[i] = {"command", "result", "uid"}
      ]_vars

(* C23, witness: a MODERATE and a CRITICAL command, each announced with    *)
(* its own risk level, have been executed by one confirm.                  *)
C23_Witness ==
    /\ ret.op = "confirm"
    /\ ret.kind = "executed"
    /\ Len(ret.executed) = 2
    /\ Len(notifications) = 2
    /\ {notifications[1].risk_level, notifications[2].risk_level}
          = {"MODERATE", "CRITICAL"}
    /\ Len(log) = 2
    /\ log[1].now = log[2].now

(* Two characters that are the same letter, in whatever case *)
SameLetter(a, b) ==
    \/ a = b
    \/ \E p \in { <<"A","a">>, <<"C","c">>, <<"F","f">>, <<"G","g">>, <<"H","h">>,
                  <<"I","i">>, <<"K","k">>, <<"L","l">>, <<"O","o">>, <<"P","p">>,
                  <<"W","w">> } :
          {a, b} = {p[1], p[2]}

(* The keyword occurs in the text, letter case ignored *)
OccursIn(keyword, text) ==
    \E off \in 0..(Len(text) - Len(keyword)) :
        \A k \in 1..Len(keyword) : SameLetter(keyword[k], text[off + k])

(* C24: a confirm call rejects its text as an invalid confirmation exactly *)
(* when the configured keyword does not occur in it, letter case ignored   *)
(* on both sides; the words around the keyword do not matter.              *)
C24_AcceptsExactlyKeyword ==
    [][ \A u \in Utterances :
          (ConfirmInvalid(1, u) \/ ConfirmStart(1, u)) =>
              /\ ret'.kind = "invalid" <=> ~OccursIn(confirmation_keyword, u)
              /\ ret'.kind = "invalid" => (ret'.op = "confirm" /\ ~ret'.success)
      ]_vars

(* C24, witness: a controller configured with "Wolf-Logic" has executed a  *)
(* command on a confirm; the texts it is called with have the keyword in   *)
(* lower case, or in other case among other words.                         *)
C24_Witness ==
    /\ confirmation_keyword = <<"W","o","l","f","-","L","o","g","i","c">>
    /\ ret.op = "confirm"
    /\ ret.kind = "executed"
    /\ Len(log) = 1
    /\ log[1].kw

(* The table of the specification: the risk tier of each action it names *)
TierTable ==
    [c \in {"open_file", "copy_file", "minimize_window", "maximize_window",
            "close_window", "switch_window", "lock_workstation",
            "create_file", "move_file", "sleep", "type_text", "press_key",
            "click_mouse", "change_wallpaper", "network_connect",
            "delete_file", "kill_process", "network_disconnect",
            "run_powershell", "run_cmd", "run_terminal",
            "shutdown", "restart", "registry_edit", "system_file_edit"} |->
        CASE c \in {"open_file", "copy_file", "minimize_window", "maximize_window",
                    "close_window", "switch_window", "lock_workstation"} -> "SAFE"
          [] c \in {"create_file", "move_file", "sleep", "type_text", "press_key",
                    "click_mouse", "change_wallpaper", "network_connect"} -> "MODERATE"
          [] c \in {"delete_file", "kill_process", "network_disconnect",
                    "run_powershell", "run_cmd", "run_terminal"} -> "HIGH"
          [] c \in {"shutdown", "restart", "registry_edit", "system_file_edit"}
                    -> "CRITICAL"]

(* C25: the tier of every action that the specification's table names is   *)
(* the tier of its row, and it is so at every submit, whatever calls were  *)
(* made before: a submit of an action of a SAFE row invokes the executor   *)
(* and stores nothing, and a submit of an action of another row stores an  *)
(* entry with the tier of the row and invokes nothing.                     *)
C25_FixedTable ==
    [][ /\ \A c \in DOMAIN TierTable : RiskOf(c) = TierTable[c]
        /\ \A c \in DOMAIN TierTable :
              (SubmitSafe(1, c) \/ SubmitPending(1, c)) =>
                  IF TierTable[c] = "SAFE"
                  THEN /\ pending_commands' = pending_commands
                       /\ Len(log') = Len(log) + 1
                       /\ log'[Len(log')].command = c
                  ELSE /\ log' = log
                       /\ \E i \in 1..Len(pending_commands') :
                             /\ pending_commands'[i].uid = Len(submits')
                             /\ pending_commands'[i].command = c
                             /\ pending_commands'[i].risk_level = TierTable[c]
      ]_vars

(* C25, witness: after a submit of copy_file, which was executed at once,  *)
(* a submit of registry_edit has stored a CRITICAL entry.                  *)
C25_Witness ==
    /\ Len(submits) = 2
    /\ submits[1].command = "copy_file"
    /\ Len(log) = 1
    /\ log[1].command = "copy_file"
    /\ Len(pending_commands) = 1
    /\ pending_commands[1].command = "registry_edit"
    /\ pending_commands[1].risk_level = "CRITICAL"

(* The command that a step of a confirm pass hands to the executor is the  *)
(* first one of the listing, and the pass ends with no call when the       *)
(* listing is empty.                                                       *)
C26_NextIsFirstListed(listing) ==
    IF Len(listing) = 0
    THEN /\ log' = log
         /\ ret'.op = "confirm"
    ELSE /\ Len(log') = Len(log) + 1
         /\ CommandId(log'[Len(log')].command, log'[Len(log')].timestamp) = listing[1].id
         /\ log'[Len(log')].via = "confirm"

(* C26: with one call at a time, a confirm with the keyword executes       *)
(* exactly what a list call at the confirm's clock value returns: at the   *)
(* start of the pass and after each executed command, the next command the *)
(* pass executes is the first one that the listing of the table as it then *)
(* is gives for that clock value, and the pass ends when that listing is   *)
(* empty.  An entry whose age is exactly the timeout is in the listing.    *)
C26_SameInclusiveBound ==
    [][ /\ (\E u \in Utterances : ConfirmStart(1, u)) =>
              /\ C26_NextIsFirstListed(PendingList(pending_commands, clock))
              /\ \A i \in 1..Len(pending_commands) :
                    clock - pending_commands[i].timestamp = command_timeout * TicksPerSecond
                        => \E k \in 1..Len(PendingList(pending_commands, clock)) :
                              PendingList(pending_commands, clock)[k].id
                                  = pending_commands[i].id
        /\ (\E r \in Results : ConfirmResume(1, r)) =>
              C26_NextIsFirstListed(PendingList(pending_commands', task[1].now))
      ]_vars

(* C26, witness: a confirm with the keyword has executed the one entry     *)
(* whose age was exactly the timeout, and has not executed an older one.   *)
C26_Witness ==
    /\ ret.op = "confirm"
    /\ ret.kind = "executed"
    /\ Len(ret.executed) = 1
    /\ Len(submits) = 2
    /\ Len(log) = 1
    /\ log[1].via = "confirm"
    /\ log[1].now - log[1].timestamp = command_timeout * TicksPerSecond
    /\ log[1].uid = 2

(* C27: a step of a confirm call that hands a command to the executor is   *)
(* never taken while the submit call that created the command is still     *)
(* suspended in its call of the notifier.                                  *)
C27_NotBeforeSubmitReturns ==
    [][ (Len(log') = Len(log) + 1 /\ log'[Len(log')].via = "confirm") =>
            \A t \in Tasks :
                task[t].pc = "submit_notify" => task[t].uid # log'[Len(log')].uid
      ]_vars

(* The submits of commands that need confirmation made after the first    *)
(* nsub submits                                                            *)
C28_SubmittedSince(nsub) ==
    { k \in (nsub + 1)..Len(submits) : NonSafe(submits[k].command) }

C28_KeptWhenIdsDiffer ==
    [][ C4_UniqueIds' =>
        \A t \in Tasks :
          (task[t].pc = "confirm_exec" /\ task'[t].pc = "idle"
                /\ ret'.kind \in {"executed", "nothing"}) =>
              \A k \in C28_SubmittedSince(task[t].nsub) :
                  /\ \A i \in 1..Len(ret'.executed) : ret'.executed[i].uid # k
                  /\ k \in Uids(pending_commands') \/ RunsIn(log, k) # {}
      ]_vars

(* The calls of _handle_transcription that detected the wake word *)
C30_Detections ==
    { j \in 1..Len(transcriptions) :
        ~transcriptions[j].before /\ IsSubstring(WakeWord, transcriptions[j].text) }

(* The calls of _handle_transcription that made a task for the command     *)
(* callback                                                                *)
C30_Dispatches ==
    { i \in 1..Len(transcriptions) : transcriptions[i].dispatched = "command" }

(* C30: a task for the command callback is made only for an utterance      *)
(* received in command mode, after a detection of the wake word since      *)
(* which no other command was dispatched; the utterance that is the        *)
(* detection is not dispatched as a command; and the call that dispatches  *)
(* a command leaves the manager in idle mode.                              *)
C30_OneCommandPerWakeWord ==
    /\ \A i \in C30_Dispatches :
          /\ transcriptions[i].before
          /\ ~transcriptions[i].after
          /\ \E j \in C30_Detections :
                /\ j < i
                /\ \A k \in (j + 1)..(i - 1) : k \notin C30_Dispatches
    /\ \A j \in C30_Detections : j \notin C30_Dispatches
    /\ transcriptions # <<>> =>
          is_wake_word_detected = transcriptions[Len(transcriptions)].after

(* C30, witness: the wake word was detected, the next utterance was        *)
(* dispatched as a command, and a further utterance, heard in idle mode,   *)
(* was not.                                                                *)
C30_Witness ==
    /\ Len(transcriptions) = 3
    /\ 1 \in C30_Detections
    /\ transcriptions[2].dispatched = "command"
    /\ ~transcriptions[3].before
    /\ transcriptions[3].text = <<"l","o","c","k">>
    /\ transcriptions[3].dispatched = "none"
    /\ ~is_wake_word_detected

(* A step in which a call of confirm_command begins: a task enters the     *)
(* loop of confirm_command, or the call returns at once.                   *)
C29_ConfirmCalled ==
    \/ \E t \in Tasks : task[t].pc = "idle" /\ task'[t].pc = "confirm_exec"
    \/ ret'.op = "confirm" /\ task' = task

(* The steps of the handler task h that follow its first one *)
C29_StepOf(h) ==
    /\ handler[h].pc # "idle"
    /\ \/ handler'[h] # handler[h]
       \/ handler[h].pc \in {"confirm", "execute"}
             /\ task'[handler[h].slot] # task[handler[h].slot]

(* What a handler does not do for an utterance with the keyword: no call   *)
(* of the language model, no submit, no append to the history.             *)
C29_OnlyConfirm ==
    /\ chats' = chats
    /\ submits' = submits
    /\ conversation_history' = conversation_history

(* C29: the handler passes an utterance to confirm_command exactly when    *)
(* the keyword occurs in it, whatever the case of its letters: the step    *)
(* that takes up such an utterance begins a confirm call, and neither that *)
(* step nor any later step of the same handler calls the language model,   *)
(* makes a submit or appends to the conversation history; a confirm call   *)
(* begins in no other step, so no other utterance is passed to confirm.    *)
C29_KeywordGoesToConfirmOnly ==
    [][ /\ voice' # voice =>
              LET text == voice'[Len(voice')] IN
              IF OccursIn(confirmation_keyword, text)
              THEN C29_ConfirmCalled /\ C29_OnlyConfirm
              ELSE ~C29_ConfirmCalled /\ task' = task /\ Len(chats') = Len(chats) + 1
        /\ \A h \in Handlers :
              (C29_StepOf(h) /\ OccursIn(confirmation_keyword, handler[h].text))
                  => C29_OnlyConfirm
        /\ C29_ConfirmCalled => voice' # voice
      ]_vars

(* C29, witness: an utterance with the keyword among other words has been  *)
(* passed to confirm, which executed the command that the handler of an    *)
(* earlier utterance had submitted; the language model was called once,    *)
(* for the earlier utterance.                                              *)
C29_Witness ==
    /\ Len(voice) = 2
    /\ ~OccursIn(confirmation_keyword, voice[1])
    /\ voice[2] = <<"O","K"," ","W","o","l","f","-","L","o","g","i","c">>
    /\ Len(chats) = 1
    /\ Len(conversation_history) = 2
    /\ Len(submits) = 1
    /\ ret.op = "confirm"
    /\ ret.kind = "executed"
    /\ \A h \in Handlers : handler[h].pc = "idle"

====
